---- MODULE Spec2Model ----
(***************************************************************************)
(* A model of the kv storage engine (src/src/lib.rs): an append-only log   *)
(* of newline-terminated JSON commands, an in-memory index of byte ranges, *)
(* replay on open, and in-place compaction.                                *)
(*                                                                         *)
(* The log file is modelled byte for byte: a byte is a one-character       *)
(* string, the file a sequence of bytes.  Offsets are 0-based as in the    *)
(* code; the range [i0, i1) of a file f is SubSeq(f, i0 + 1, i1).          *)
(***************************************************************************)
EXTENDS Integers, Sequences, FiniteSets, TLC

\* ------------------------------------------------------------- bounds
\* The number of set, remove and open calls in a run, the largest value the
\* caller assigns to compaction_threshold, and the number of log appends that
\* fail in a run on a filesystem that can fail.
MaxOps == 4
MaxThreshold == 3
MaxFailures == 1

\* ------------------------------------------------------ program constants
DefaultThreshold == 100

\* ------------------------------------------------------------- bytes
Q == "\""
NL == "\n"
NUL == "NUL"

\* The keys and values the callers pass: "k1", "k2" and "v", "vv" (values of
\* different lengths give records of different lengths).
Keys == {<<"k", "1">>, <<"k", "2">>}
Values == {<<"v">>, <<"v", "v">>}

\* ------------------------------------------------------------ commands
SetCmd(k, v) == [tag |-> "Set", key |-> k, value |-> v]
RmCmd(k) == [tag |-> "Rm", key |-> k, value |-> <<>>]
BadCmd == [tag |-> "Err", key |-> <<>>, value |-> <<>>]

\* serde_json::to_string of a Command (externally tagged enum, compact):
\*   {"Set":{"key":"k1","value":"v"}}      {"Rm":{"key":"k1"}}
\* Keys and values here hold no character that JSON escapes.
JsonString(s) == <<Q>> \o s \o <<Q>>
ToJson(c) ==
  IF c.tag = "Set"
    THEN <<"{">> \o JsonString(<<"S", "e", "t">>) \o <<":", "{">>
         \o JsonString(<<"k", "e", "y">>) \o <<":">> \o JsonString(c.key)
         \o <<",">> \o JsonString(<<"v", "a", "l", "u", "e">>) \o <<":">>
         \o JsonString(c.value) \o <<"}", "}">>
    ELSE <<"{">> \o JsonString(<<"R", "m">>) \o <<":", "{">>
         \o JsonString(<<"k", "e", "y">>) \o <<":">> \o JsonString(c.key)
         \o <<"}", "}">>

\* writeln!(log, "{}", json): the record on disk is the JSON and one newline.
Record(c) == ToJson(c) \o <<NL>>

\* ------------------------------------------------------------ decoding
\* serde_json::from_slice / from_str into Command.  JSON whitespace (here the
\* newline) may stand before and after every token; any other byte out of place,
\* a missing token, a raw control character inside a string, or bytes left after
\* the closing brace is an error.  Fields are accepted in the order the encoder
\* writes them.
Punct(c) == [kind |-> "punct", text |-> <<c>>]
Lit(s) == [kind |-> "lit", text |-> s]
AnyStr == [kind |-> "any", text |-> <<>>]
SetTokens ==
  <<Punct("{"), Lit(<<"S", "e", "t">>), Punct(":"), Punct("{"),
    Lit(<<"k", "e", "y">>), Punct(":"), AnyStr, Punct(","),
    Lit(<<"v", "a", "l", "u", "e">>), Punct(":"), AnyStr, Punct("}"), Punct("}")>>
RmTokens ==
  <<Punct("{"), Lit(<<"R", "m">>), Punct(":"), Punct("{"),
    Lit(<<"k", "e", "y">>), Punct(":"), AnyStr, Punct("}"), Punct("}")>>

RECURSIVE SkipWs(_)
SkipWs(s) == IF s # <<>> /\ Head(s) = NL THEN SkipWs(Tail(s)) ELSE s

\* The first position at or after `from` that holds byte c, or 0.
FirstPos(s, c, from) ==
  LET at == {i \in from..Len(s) : s[i] = c}
  IN IF at = {} THEN 0 ELSE CHOOSE i \in at : \A j \in at : i <= j

\* A JSON string at the head of s: the text between the quotes and what follows.
ParseStr(s) ==
  LET close == IF s # <<>> /\ Head(s) = Q THEN FirstPos(s, Q, 2) ELSE 0
  IN IF close = 0 \/ (\E i \in 2..(close - 1) : s[i] \in {NL, NUL})
       THEN [ok |-> FALSE, str |-> <<>>, rest |-> <<>>]
       ELSE [ok |-> TRUE, str |-> SubSeq(s, 2, close - 1),
             rest |-> SubSeq(s, close + 1, Len(s))]

NoMatch == [ok |-> FALSE, caps |-> <<>>]
RECURSIVE Match(_, _, _)
Match(s, toks, caps) ==
  LET t == SkipWs(s)
  IN IF toks = <<>> THEN [ok |-> t = <<>>, caps |-> caps]
     ELSE IF t = <<>> THEN NoMatch
     ELSE IF Head(toks).kind = "punct"
       THEN IF Head(t) = Head(toks).text[1]
              THEN Match(Tail(t), Tail(toks), caps) ELSE NoMatch
       ELSE LET p == ParseStr(t)
            IN IF ~p.ok THEN NoMatch
               ELSE IF Head(toks).kind = "lit"
                 THEN IF p.str = Head(toks).text
                        THEN Match(p.rest, Tail(toks), caps) ELSE NoMatch
                 ELSE Match(p.rest, Tail(toks), Append(caps, p.str))

FromJson(bytes) ==
  LET s == Match(bytes, SetTokens, <<>>)
      r == Match(bytes, RmTokens, <<>>)
  IN IF s.ok THEN SetCmd(s.caps[1], s.caps[2])
     ELSE IF r.ok THEN RmCmd(r.caps[1])
     ELSE BadCmd

\* --------------------------------------------------------------- index
\* HashMap<String, (u64, u64)>: a function from the keys present to <<i0, i1>>.
EmptyIndex == [k \in {} |-> <<0, 0>>]
Insert(idx, k, r) == [x \in (DOMAIN idx) \cup {k} |-> IF x = k THEN r ELSE idx[x]]
Delete(idx, k) == [x \in (DOMAIN idx) \ {k} |-> idx[x]]

\* HashMap::values() iterates in an arbitrary order: any arrangement of the keys.
Orders(S) ==
  {o \in [1..Cardinality(S) -> S] : \A i, j \in 1..Cardinality(S) : i # j => o[i] # o[j]}

\* ------------------------------------------------------------- results
Res(tag, value) == [tag |-> tag, value |-> value]
Ok == Res("Ok", <<>>)
OkNone == Res("None", <<>>)
OkSome(v) == Res("Some", v)
IoError == Res("IoError", <<>>)
JsonError == Res("JsonError", <<>>)

Max(a, b) == IF a >= b THEN a ELSE b

\* --------------------------------------------------------------- state
VARIABLES
  log,                   \* the bytes of <dir>/log on disk
  pos,                   \* the seek position of the store's file handle
  log_length,            \* KvStore.log_length: the record counter
  index,                 \* KvStore.index
  compaction_threshold,  \* KvStore.compaction_threshold
  opened,                \* a KvStore value exists (the last open returned Ok)
  last,                  \* history: the last call made and what it returned
  pre,                   \* history: whether the last call ran compaction to the
                         \*   end, and the log as it stood when compaction began
  hist,                  \* history: per key, the last command ever applied to it
  sess,                  \* history: per key, the last command applied through
                         \*   the present store value
  calls                  \* history: the set, remove and open calls made so far

vars == <<log, pos, log_length, index, compaction_threshold, opened,
          last, pre, hist, sess, calls>>

Call(op, k, v, r) == [op |-> op, key |-> k, value |-> v, res |-> r, moved |-> FALSE]
\* A set or remove call; moved: the handle was not at the end of the log when
\* the call began.
Mutation(op, k, v, r) == [Call(op, k, v, r) EXCEPT !.moved = (pos # Len(log))]
NoCmd == [tag |-> "None", value |-> <<>>, over |-> FALSE, live |-> FALSE]
NoCompaction == [called |-> FALSE, ran |-> FALSE, log |-> <<>>]
Made(op, k, v) ==
  [op |-> op, key |-> k, value |-> v, compacted |-> FALSE, failed |-> FALSE]

\* ------------------------------------------------------ file primitives
\* The bytes [i0, i1) of a file.
Range(f, i0, i1) == SubSeq(f, i0 + 1, i1)

\* seek(Start(i0)) then read_exact of i1 - i0 bytes: a short read is an error
\* that leaves the position at the end of the file (or at i0 if that is later).
ReadExact(f, i0, i1) ==
  IF i1 <= Len(f) \/ i1 = i0
    THEN [ok |-> TRUE, bytes |-> Range(f, i0, i1), pos |-> i1]
    ELSE [ok |-> FALSE, bytes |-> <<>>, pos |-> Max(i0, Len(f))]

\* File::set_len: cut the file, or extend it with zero bytes.
SetLen(f, n) ==
  IF n <= Len(f) THEN SubSeq(f, 1, n) ELSE f \o [j \in 1..(n - Len(f)) |-> NUL]

\* File::write on a handle opened with append(true): the bytes go to the end
\* of the file whatever the seek position is.
WriteAppend(f, bytes) == f \o bytes

\* ------------------------------------------------------- append_command
\* append_command as it would be if it took the start offset from the handle's
\* position instead of seeking to the end first.
append_command_at_pos(f, c) ==
  LET g == WriteAppend(f, Record(c))
  IN [log |-> g, offsets |-> <<pos, pos + Len(Record(c))>>]

\* The log after the append and the offsets returned: the two SeekFrom::End(0)
\* results around the write.
append_command(f, c) ==
  LET g == WriteAppend(f, Record(c))
  IN [log |-> g, offsets |-> <<Len(f), Len(g)>>]

\* ---------------------------------------------------------- build_index
\* BufReader::lines(): the text between newlines; a last line with no newline
\* is a line too.
RECURSIVE Lines(_)
Lines(f) ==
  IF f = <<>> THEN <<>>
  ELSE LET i == FirstPos(f, NL, 1)
       IN IF i = 0 THEN <<f>>
          ELSE <<SubSeq(f, 1, i - 1)>> \o Lines(SubSeq(f, i + 1, Len(f)))

RECURSIVE BuildFrom(_, _, _, _)
BuildFrom(lines, idx, i1, n) ==
  IF lines = <<>> THEN [ok |-> TRUE, index |-> idx, log_length |-> n]
  ELSE LET line == Head(lines)
           i0 == i1
           j1 == i1 + Len(line)
           c == FromJson(line)
       IN IF c.tag = "Err" THEN [ok |-> FALSE, index |-> EmptyIndex, log_length |-> 0]
          ELSE BuildFrom(Tail(lines),
                         IF c.tag = "Set" THEN Insert(idx, c.key, <<i0, j1>>)
                                          ELSE Delete(idx, c.key),
                         j1, n + 1)

\* build_index as it would be if it seeded the counter with the number of live
\* keys instead of the number of records.
build_index_counts_keys(f) ==
  LET b == BuildFrom(Lines(f), EmptyIndex, 0, 0)
  IN [b EXCEPT !.log_length = Cardinality(DOMAIN b.index)]

build_index(f) == BuildFrom(Lines(f), EmptyIndex, 0, 0)

\* -------------------------------------------------------------- compact
RECURSIVE SumLen(_, _)
SumLen(idx, order) ==
  IF order = <<>> THEN 0
  ELSE (idx[Head(order)][2] - idx[Head(order)][1]) + SumLen(idx, Tail(order))

\* The read loop: each indexed range is read into the buffer, in iteration order.
RECURSIVE ReadRanges(_, _, _, _)
ReadRanges(f, idx, order, buf) ==
  IF order = <<>> THEN [ok |-> TRUE, buf |-> buf, pos |-> 0]
  ELSE LET r == ReadExact(f, idx[Head(order)][1], idx[Head(order)][2])
       IN IF ~r.ok THEN [ok |-> FALSE, buf |-> <<>>, pos |-> r.pos]
          ELSE ReadRanges(f, idx, Tail(order), buf \o r.bytes)

\* compact on log f and index idx, the index iterated in `order`.
compact(f, idx, order) ==
  LET compacted_len == SumLen(idx, order)
      rd == ReadRanges(f, idx, order, <<>>)
      g == WriteAppend(SetLen(f, compacted_len), rd.buf)
  IN IF ~rd.ok THEN [ok |-> FALSE, res |-> IoError, log |-> f, pos |-> rd.pos]
     ELSE [ok |-> TRUE, res |-> Ok, log |-> g, pos |-> Len(g)]

\* ------------------------------------------------------------------ get
\* What get(key) returns and where it leaves the handle, on log f and index idx.
GetOn(f, idx, p, key) ==
  IF key \notin DOMAIN idx THEN [res |-> OkNone, pos |-> p]
  ELSE LET r == ReadExact(f, idx[key][1], idx[key][2])
           c == FromJson(r.bytes)
       IN IF ~r.ok THEN [res |-> IoError, pos |-> r.pos]
          ELSE IF c.tag = "Err" THEN [res |-> JsonError, pos |-> r.pos]
          ELSE IF c.tag = "Set" THEN [res |-> OkSome(c.value), pos |-> r.pos]
          ELSE [res |-> OkNone, pos |-> r.pos]

GetResult(key) == GetOn(log, index, pos, key).res

\* ----------------------------------------------------------------- open
\* The state after KvStore::open on a directory that does not exist yet.
Init ==
  /\ log = <<>>
  /\ pos = 0
  /\ log_length = 0
  /\ index = EmptyIndex
  /\ compaction_threshold = DefaultThreshold
  /\ opened = TRUE
  /\ last = Call("open", <<>>, <<>>, Ok)
  /\ pre = NoCompaction
  /\ hist = [k \in Keys |-> [tag |-> "None", value |-> <<>>]]
  /\ sess = [k \in Keys |-> NoCmd]
  /\ calls = <<>>

\* The store value, if any, is dropped and KvStore::open is called on the same
\* directory: the log is replayed through the new handle up to its end.
open ==
  /\ Len(calls) < MaxOps
  /\ \E b \in {build_index(log)} :
        /\ opened' = b.ok
        /\ index' = b.index
        /\ log_length' = b.log_length
        /\ last' = Call("open", <<>>, <<>>, IF b.ok THEN Ok ELSE JsonError)
  /\ pos' = Len(log)
  /\ compaction_threshold' = DefaultThreshold
  /\ pre' = NoCompaction
  /\ sess' = [k \in Keys |-> NoCmd]
  /\ calls' = Append(calls, Made("open", <<>>, <<>>))
  /\ UNCHANGED <<log, hist>>

\* kv.compaction_threshold = t, assigned by the caller right after open.
set_compaction_threshold(t) ==
  /\ opened
  /\ last.op = "open"
  /\ compaction_threshold = DefaultThreshold
  /\ compaction_threshold' = t
  /\ UNCHANGED <<log, pos, log_length, index, opened, last, pre, hist, sess, calls>>

\* ------------------------------------------------------------------ set
\* The trigger as it would be if the counter had to exceed the threshold.
ShouldCompact_above(n, threshold) == n > threshold

\* The trigger set tests after its append: the counter has reached the threshold.
ShouldCompact(n, threshold) == n >= threshold

set(key, value) ==
  /\ opened
  /\ Len(calls) < MaxOps
  /\ LET a == append_command(log, SetCmd(key, value))
         idx == Insert(index, key, a.offsets)
         n == log_length + 1
     IN /\ index' = idx
        /\ log_length' = n
        /\ IF ShouldCompact(n, compaction_threshold)
             THEN \E order \in Orders(DOMAIN idx) :
                    \E c \in {compact(a.log, idx, order)} :
                       /\ log' = c.log
                       /\ pos' = c.pos
                       /\ last' = Mutation("set", key, value, c.res)
                       /\ pre' = [called |-> TRUE, ran |-> c.ok,
                                  log |-> IF c.ok THEN a.log ELSE <<>>]
             ELSE /\ log' = a.log
                  /\ pos' = a.offsets[2]
                  /\ last' = Mutation("set", key, value, Ok)
                  /\ pre' = NoCompaction
  /\ hist' = [hist EXCEPT ![key] = [tag |-> "Set", value |-> value]]
  /\ sess' = [sess EXCEPT ![key] = [tag |-> "Set", value |-> value,
                                    over |-> sess[key].tag = "Set",
                                    live |-> key \in DOMAIN index]]
  /\ calls' = Append(calls, [Made("set", key, value) EXCEPT
                               !.compacted = ShouldCompact(log_length + 1,
                                                           compaction_threshold)])
  /\ UNCHANGED <<compaction_threshold, opened>>

\* ------------------------------------------------------------------ get
get(key) ==
  /\ opened
  /\ \E g \in {GetOn(log, index, pos, key)} :
        /\ pos' = g.pos
        /\ last' = Call("get", key, <<>>, g.res)
  /\ pre' = NoCompaction
  /\ UNCHANGED <<log, log_length, index, compaction_threshold, opened,
                 hist, sess, calls>>

\* --------------------------------------------------------------- remove
\* remove as it would be if it left the index entry in place.
remove_keeps_entry(key) ==
  /\ opened
  /\ Len(calls) < MaxOps
  /\ index' = index
  /\ LET a == append_command(log, RmCmd(key))
     IN /\ log' = a.log
        /\ pos' = a.offsets[2]
  /\ log_length' = log_length + 1
  /\ last' = Call("remove", key, <<>>, Ok)
  /\ pre' = NoCompaction
  /\ hist' = [hist EXCEPT ![key] = [tag |-> "Rm", value |-> <<>>]]
  /\ sess' = [sess EXCEPT ![key] = [tag |-> "Rm", value |-> <<>>, over |-> FALSE,
                                    live |-> key \in DOMAIN index]]
  /\ calls' = Append(calls, Made("remove", key, <<>>))
  /\ UNCHANGED <<compaction_threshold, opened>>

\* remove as it would be if a key with no index entry were an error.
remove_missing_is_error(key) ==
  /\ opened
  /\ Len(calls) < MaxOps
  /\ index' = Delete(index, key)
  /\ IF key \in DOMAIN index
       THEN LET a == append_command(log, RmCmd(key))
            IN /\ log' = a.log
               /\ pos' = a.offsets[2]
               /\ log_length' = log_length + 1
               /\ last' = Call("remove", key, <<>>, Ok)
       ELSE /\ UNCHANGED <<log, pos, log_length>>
            /\ last' = Call("remove", key, <<>>, Res("NotImplemented", <<>>))
  /\ pre' = NoCompaction
  /\ hist' = [hist EXCEPT ![key] = [tag |-> "Rm", value |-> <<>>]]
  /\ sess' = [sess EXCEPT ![key] = [tag |-> "Rm", value |-> <<>>, over |-> FALSE,
                                    live |-> key \in DOMAIN index]]
  /\ calls' = Append(calls, Made("remove", key, <<>>))
  /\ UNCHANGED <<compaction_threshold, opened>>

remove(key) ==
  /\ opened
  /\ Len(calls) < MaxOps
  /\ index' = Delete(index, key)
  /\ LET a == append_command(log, RmCmd(key))
     IN /\ log' = a.log
        /\ pos' = a.offsets[2]
  /\ log_length' = log_length + 1
  /\ last' = Mutation("remove", key, <<>>, Ok)
  /\ pre' = NoCompaction
  /\ hist' = [hist EXCEPT ![key] = [tag |-> "Rm", value |-> <<>>]]
  /\ sess' = [sess EXCEPT ![key] = [tag |-> "Rm", value |-> <<>>, over |-> FALSE,
                                    live |-> key \in DOMAIN index]]
  /\ calls' = Append(calls, Made("remove", key, <<>>))
  /\ UNCHANGED <<compaction_threshold, opened>>

\* ------------------------------------------------ failing log appends
\* The I/O calls of append_command; each can return an error, which the `?`
\* after it returns to the caller at once.
AppendCalls == {"seek", "write", "seek_end"}

\* The log appends that have failed so far.
Failures == Cardinality({i \in 1..Len(calls) : calls[i].failed})

\* append_command on log f with the handle at p, when its I/O call `at` fails: a
\* failed first seek leaves everything as it was, a failed write leaves the log
\* as it was with the handle at its end, and a failed second seek comes after
\* the record is written and counted.
append_command_err(f, p, c, at) ==
  IF at = "seek" THEN [log |-> f, pos |-> p, written |-> FALSE]
  ELSE IF at = "write" THEN [log |-> f, pos |-> Len(f), written |-> FALSE]
  ELSE LET g == WriteAppend(f, Record(c))
       IN [log |-> g, pos |-> Len(g), written |-> TRUE]

\* set when append_command returns an error: the `?` returns it before the
\* index insert and the trigger test.
set_io_error(key, value, at) ==
  /\ opened
  /\ Len(calls) < MaxOps
  /\ Failures < MaxFailures
  /\ LET a == append_command_err(log, pos, SetCmd(key, value), at)
     IN /\ log' = a.log
        /\ pos' = a.pos
        /\ log_length' = IF a.written THEN log_length + 1 ELSE log_length
        /\ hist' = IF a.written
                     THEN [hist EXCEPT ![key] = [tag |-> "Set", value |-> value]]
                     ELSE hist
  /\ last' = Mutation("set", key, value, IoError)
  /\ pre' = NoCompaction
  /\ calls' = Append(calls, [Made("set", key, value) EXCEPT !.failed = TRUE])
  /\ UNCHANGED <<index, compaction_threshold, opened, sess>>

\* remove when append_command returns an error: the index entry has already
\* been deleted when the `?` returns the error.
remove_io_error(key, at) ==
  /\ opened
  /\ Len(calls) < MaxOps
  /\ Failures < MaxFailures
  /\ index' = Delete(index, key)
  /\ LET a == append_command_err(log, pos, RmCmd(key), at)
     IN /\ log' = a.log
        /\ pos' = a.pos
        /\ log_length' = IF a.written THEN log_length + 1 ELSE log_length
        /\ hist' = IF a.written
                     THEN [hist EXCEPT ![key] = [tag |-> "Rm", value |-> <<>>]]
                     ELSE hist
  /\ last' = Mutation("remove", key, <<>>, IoError)
  /\ pre' = NoCompaction
  /\ sess' = [sess EXCEPT ![key] = [tag |-> "Rm", value |-> <<>>, over |-> FALSE,
                                    live |-> key \in DOMAIN index]]
  /\ calls' = Append(calls, [Made("remove", key, <<>>) EXCEPT !.failed = TRUE])
  /\ UNCHANGED <<compaction_threshold, opened>>

\* ---------------------------------------------------------------- system
Next ==
  \/ open
  \/ \E t \in 1..MaxThreshold : set_compaction_threshold(t)
  \/ \E key \in Keys, value \in Values : set(key, value)
  \/ \E key \in Keys : get(key)
  \/ \E key \in Keys : remove(key)

Spec == Init /\ [][Next]_vars

\* The same store on a filesystem whose log appends can fail.
NextIo ==
  \/ Next
  \/ \E key \in Keys, value \in Values, at \in AppendCalls : set_io_error(key, value, at)
  \/ \E key \in Keys, at \in AppendCalls : remove_io_error(key, at)

SpecIo == Init /\ [][NextIo]_vars

\* ======================================================================
\* Properties
\* ======================================================================

\* A set call just returned Ok.
SetReturnedOk == opened /\ last.op = "set" /\ last.res = Ok

\* The byte count of the log the calls made so far would have produced with no
\* compaction: every set and remove appends one record.
RECURSIVE RawLen(_)
RawLen(cs) ==
  IF cs = <<>> THEN 0
  ELSE RawLen(Tail(cs))
       + (IF Head(cs).op = "set" THEN Len(Record(SetCmd(Head(cs).key, Head(cs).value)))
          ELSE IF Head(cs).op = "remove" THEN Len(Record(RmCmd(Head(cs).key)))
          ELSE 0)

\* The records of the latest Set of each key of `order`, one after the other.
RECURSIVE LiveRecords(_)
LiveRecords(order) ==
  IF order = <<>> THEN <<>>
  ELSE Record(SetCmd(Head(order), hist[Head(order)].value)) \o LiveRecords(Tail(order))

\* C1: a successful set(k, v) immediately followed by get(k) returns Ok(Some(v)),
\* in every reachable state of an open store.
C1_SetThenGet ==
  SetReturnedOk => GetResult(last.key) = OkSome(last.value)

\* C2: last-write-wins: once a key set before is set again on the same store with
\* no remove of it in between, get of that key returns the value of the later set,
\* whatever is done to other keys afterwards.
C2_LastWriteWins ==
  \A k \in Keys :
    (opened /\ sess[k].tag = "Set" /\ sess[k].over) => GetResult(k) = OkSome(sess[k].value)

\* C3: independence: a set(k, v) that returns Ok leaves the result of get(k2)
\* unchanged for every other key k2.
C3_Independence ==
  [][ (opened /\ Len(calls') = Len(calls) + 1 /\ last'.op = "set" /\ last'.res = Ok)
        => \A k2 \in Keys \ {last'.key} :
             GetOn(log', index', pos', k2).res = GetResult(k2) ]_vars

\* C4: tombstone: after remove(k) of a key that was live, and no later set of k
\* on that store, get(k) returns Ok(None).
C4_Tombstone ==
  \A k \in Keys :
    (opened /\ sess[k].tag = "Rm" /\ sess[k].live) => GetResult(k) = OkNone

C4_Witness ==
  \E k \in Keys :
    /\ opened /\ sess[k].tag = "Rm" /\ sess[k].live
    /\ hist[k].tag = "Rm"
    /\ last = Call("get", k, <<>>, OkNone)

\* C5: no-op removal: remove(k) of a key that is not in the store returns Ok, and
\* get(k) then returns Ok(None).
C5_NoOpRemoval ==
  \A k \in Keys :
    (opened /\ sess[k].tag = "Rm" /\ ~sess[k].live)
      => /\ GetResult(k) = OkNone
         /\ (last.op = "remove" /\ last.key = k) => last.res = Ok

C5_Witness ==
  \E k \in Keys :
    /\ opened /\ sess[k].tag = "Rm" /\ ~sess[k].live
    /\ last = Call("get", k, <<>>, OkNone)

\* C6: replay correctness: closing an open store and opening the same directory
\* again succeeds, and get returns for every key what it returned before closing.
C6_Replay ==
  [][ (opened /\ Len(calls') = Len(calls) + 1 /\ last'.op = "open")
        => /\ opened'
           /\ \A k \in Keys : GetOn(log', index', pos', k).res = GetResult(k) ]_vars

\* C7: compaction preserves the visible mapping: after a compaction, get returns
\* for every key, live or not, what it would have returned on the log and index
\* as they stood when the compaction began.
C7_CompactionPreservesGets ==
  (opened /\ pre.ran) => \A k \in Keys : GetResult(k) = GetOn(pre.log, index, 0, k).res

\* C8: compaction shrinks the log: on a store with threshold T on which only one
\* key was set, more than T times, the log is strictly shorter than the log the
\* same sets would have produced without compaction.
C8_CompactionShrinks ==
  \A k \in Keys :
    (/\ opened
     /\ calls # <<>>
     /\ \A i \in 1..Len(calls) : calls[i].op = "set" /\ calls[i].key = k
     /\ Len(calls) > compaction_threshold)
      => Len(log) < RawLen(calls)

\* C9: right after a compaction the log is exactly one record per live key, the
\* record of that key's latest Set, and its length is the sum of the lengths of
\* the ranges the index referenced when the compaction began.
C9_CompactedLogExact ==
  (opened /\ pre.ran)
    => /\ \E order \in Orders(DOMAIN index) :
            /\ log = LiveRecords(order)
            /\ Len(log) = SumLen(index, order)

\* C10: the index holds a key exactly when the last command ever applied to the
\* key, over the whole history of the directory, is a Set.
C10_IndexKeys ==
  opened => /\ DOMAIN index \subseteq Keys
            /\ \A k \in Keys : (k \in DOMAIN index) <=> (hist[k].tag = "Set")

\* What a replay of log f reconstructs, read off the records themselves: whether
\* every line decodes, and the value of each key whose last record is a Set.
RECURSIVE ReplayFrom(_, _)
ReplayFrom(lines, m) ==
  IF lines = <<>> THEN [ok |-> TRUE, map |-> m]
  ELSE LET c == FromJson(Head(lines))
       IN IF c.tag = "Err" THEN [ok |-> FALSE, map |-> m]
          ELSE ReplayFrom(Tail(lines),
                          IF c.tag = "Set" THEN Insert(m, c.key, c.value)
                                           ELSE Delete(m, c.key))

Replayed(f) == ReplayFrom(Lines(f), EmptyIndex)

\* The keys whose last command, over the whole history, is a Set, with its value.
LiveMap == [k \in {x \in Keys : hist[x].tag = "Set"} |-> hist[k].value]

\* C11: replaying the log a compaction leaves behind succeeds and reconstructs
\* exactly the live state: every live key with its latest value, and no key that
\* had been removed.
C11_ReplayAfterCompaction ==
  (opened /\ pre.ran) => (Replayed(log).ok /\ Replayed(log).map = LiveMap)

\* C12: index/log consistency: every index entry [start, end) of an open store
\* lies within the log, and the log bytes it covers are the record, terminator
\* included, of the latest Set of its key.
C12_IndexLogConsistent ==
  opened =>
    \A k \in DOMAIN index :
      /\ index[k][2] <= Len(log)
      /\ k \in Keys
      /\ hist[k].tag = "Set"
      /\ Range(log, index[k][1], index[k][2]) = Record(SetCmd(k, hist[k].value))

\* The byte ranges the records of log f really occupy: each line with its
\* newline (a last line without one ends at the end of the file).
RECURSIVE TrueRanges(_, _, _)
TrueRanges(lines, start, total) ==
  IF lines = <<>> THEN <<>>
  ELSE LET end == IF start + Len(Head(lines)) + 1 <= total
                    THEN start + Len(Head(lines)) + 1 ELSE total
       IN <<(<<start, end>>)>> \o TrueRanges(Tail(lines), end, total)

\* C13: replay offsets are true offsets: right after open, the index entry of a
\* key is the byte range, newline included, that the last Set record of the key
\* occupies in the file.
C13_ReplayOffsetsTrue ==
  (opened /\ last.op = "open") =>
    \A k \in DOMAIN index :
      \E i \in 1..Len(Lines(log)) :
        /\ FromJson(Lines(log)[i]).tag = "Set"
        /\ FromJson(Lines(log)[i]).key = k
        /\ \A j \in (i + 1)..Len(Lines(log)) : FromJson(Lines(log)[j]).key # k
        /\ index[k] = TrueRanges(Lines(log), 0, Len(log))[i]

\* A step that is one set or remove call, and the command the call appends.
MutationStep == opened /\ Len(calls') = Len(calls) + 1 /\ last'.op \in {"set", "remove"}
Appended(call) ==
  IF call.op = "set" THEN SetCmd(call.key, call.value) ELSE RmCmd(call.key)

\* C14: an append writes the record at the end of the log wherever the handle
\* stood: the log after the append (before any compaction of the same call) is
\* the log before it followed by the record, the record takes its encoded length
\* plus one byte, and the range a set stores in the index is [length before,
\* length after).
C14_AppendAtEnd ==
  [][ MutationStep =>
        LET c == Appended(last')
            after == IF pre'.ran THEN pre'.log ELSE log'
        IN /\ after = log \o Record(c)
           /\ Len(after) - Len(log) = Len(ToJson(c)) + 1
           /\ last'.op = "set" => index'[last'.key] = <<Len(log), Len(after)>> ]_vars

\* An append was made while the handle was not at the end of the log, by a set
\* that stored the range it was given.
C14_Witness ==
  /\ opened
  /\ last.op = "set"
  /\ last.moved
  /\ last.res = Ok
  /\ ~pre.called
  /\ last.key \in DOMAIN index
  /\ index[last.key][2] = Len(log)
  /\ Range(log, index[last.key][1], index[last.key][2])
       = Record(SetCmd(last.key, last.value))

\* C15: a set runs compaction, before it returns, exactly when the counter after
\* its own append has reached compaction_threshold; a set that leaves the counter
\* below the threshold leaves every earlier byte of the log in place.
C15_SetTrigger ==
  [][ (MutationStep /\ last'.op = "set") =>
        /\ pre'.called <=> (log_length + 1 >= compaction_threshold)
        /\ log_length' = log_length + 1
        /\ log_length' < compaction_threshold =>
             (Len(log') >= Len(log) /\ SubSeq(log', 1, Len(log)) = log) ]_vars

\* A set whose append brought the counter exactly to the threshold has run
\* compaction, with records in the log before it.
C15_Witness ==
  /\ opened
  /\ last.op = "set"
  /\ log_length = compaction_threshold
  /\ log_length > 1
  /\ pre.called
  /\ pre.ran

\* C16: remove checks the trigger as set does: a remove that brings the counter
\* to the threshold has run compaction when it returns.
C16_RemoveTrigger ==
  (opened /\ last.op = "remove" /\ log_length >= compaction_threshold) => pre.called

\* The calls made on the present store value start after the last open call.
SessionStart ==
  LET opens == {i \in 1..Len(calls) : calls[i].op = "open"}
  IN IF opens = {} THEN 0 ELSE CHOOSE i \in opens : \A j \in opens : j <= i

\* One of the first n calls was a set, on the present store value, that ran
\* compaction.
SetCompactedBy(n) ==
  \E i \in (SessionStart + 1)..n : calls[i].op = "set" /\ calls[i].compacted

\* C17: open seeds the record counter with the number of records it replayed;
\* every set and every remove adds exactly one to it, whether or not compaction
\* ran; no other step of an open store changes it; and once a set has run
\* compaction, every later set on the same store runs compaction too.
C17_Counter ==
  [][ /\ (Len(calls') = Len(calls) + 1 /\ last'.op = "open" /\ opened')
           => log_length' = Len(Lines(log'))
      /\ MutationStep => log_length' = log_length + 1
      /\ (opened /\ opened' /\ Len(calls') = Len(calls)) => log_length' = log_length
      /\ (MutationStep /\ last'.op = "set" /\ SetCompactedBy(Len(calls)))
           => pre'.called ]_vars

\* A set has run compaction on a store where an earlier set had already run it:
\* the counter is past the threshold, and the store was opened on a log with
\* records in it.
C17_Witness ==
  /\ opened
  /\ last.op = "set"
  /\ pre.called
  /\ SetCompactedBy(Len(calls) - 1)
  /\ log_length > compaction_threshold
  /\ SessionStart > 1

\* The command get(key) decodes: the bytes of the key's index range, decoded.
Decoded(key) == FromJson(Range(log, index[key][1], index[key][2]))

\* C18: get never returns a wrong value: whenever get(k) on an open store returns
\* Some(v), the record it decoded is a Set of k, and v is the value of the most
\* recent set of k, with no remove of k after it.
C18_GetNeverWrong ==
  opened =>
    \A k \in Keys :
      GetResult(k).tag = "Some" =>
        /\ Decoded(k).tag = "Set"
        /\ Decoded(k).key = k
        /\ hist[k].tag = "Set"
        /\ GetResult(k) = OkSome(hist[k].value)

\* C19: no spurious errors: with a filesystem that never fails, every set and
\* remove made on an open store has returned Ok, and every get that can be made
\* on it returns Ok.
C19_NoSpuriousErrors ==
  opened =>
    /\ last.op \in {"set", "remove", "get"} => last.res.tag \in {"Ok", "None", "Some"}
    /\ \A k \in Keys : GetResult(k).tag \in {"None", "Some"}

\* C20: when the log append inside a set or a remove fails with an I/O error,
\* the call returns that error and the index is exactly what it was before the
\* call: no key inserted, overwritten or deleted.
C20_FailedAppendKeepsIndex ==
  [][ (MutationStep /\ calls'[Len(calls')].failed) =>
        (last'.res = IoError /\ index' = index) ]_vars

====
